---- MODULE Spec2Model ----
(***************************************************************************)
(* Model of efi_builder/bluetooth.py (class BuildBluetooth).               *)
(*                                                                         *)
(* A BuildBluetooth object is constructed with a model identifier, the     *)
(* global constants (custom_model flag, probed computer) and the           *)
(* configuration document; the constructor runs _build, which dispatches   *)
(* to _on_model or _prebuilt_assumption.  Both mutate the configuration    *)
(* document in place.  The ordered list of mutations performed during one  *)
(* pass is recorded in `result`.                                           *)
(***************************************************************************)
EXTENDS Integers, Sequences, FiniteSets, TLC

VARIABLES
    pc,            \* position of the current pass
    passes,        \* number of BuildBluetooth objects constructed so far
    custom_model,  \* self.constants.custom_model
    chipset,       \* self.computer.bluetooth_chipset
    wifi,          \* self.computer.wifi (None, or the chipset of the card)
    model,         \* self.model
    config,        \* self.config, the configuration document
    config0,       \* the configuration document as handed to __init__
    result,        \* mutations performed by the current pass, in order
    prevResult,    \* mutations performed by the previous pass
    same,          \* the current pass was constructed with the previous inputs
    ran,           \* the handlers _build has called in the current pass
    raised         \* an exception escaped the current pass

vars == <<pc, passes, custom_model, chipset, wifi, model, config, config0,
          result, prevResult, same, ran, raised>>

inputs == <<custom_model, chipset, wifi, model>>

\* Number of passes run against the same configuration document.
MaxPasses == 2

None == "None"

----------------------------------------------------------------------------
(* Probed hardware *)

\* Values of computer.bluetooth_chipset; the last one is a tag no branch knows.
Chipsets == {None, "BRCM2070 Hub", "BRCM2046 Hub", "BRCM20702 Hub",
             "3rd Party Bluetooth 4.0 Hub", "Generic", "CSR Hub"}

AirPortBrcm4360 == "AirPortBrcm4360"

\* computer.wifi: absent, the 4360 card, or another Broadcom card.
WifiCards == {None, AirPortBrcm4360, "AirPortBrcm4331"}

----------------------------------------------------------------------------
(* Static reference data: cpu_data.CPUGen, bluetooth_data.bluetooth_data   *)
(* and smbios_data.smbios_dictionary.                                      *)

penryn == 3
nehalem == 4
sandy_bridge == 5
ivy_bridge == 6
haswell == 7

BRCM2046 == 3
BRCM2070 == 4
BRCM20702_v1 == 5
BRCM20702_v2 == 6

\* One entry per tier of interest, one entry without "Bluetooth Model".
smbios_dictionary ==
    [ m \in {"MacPro3,1", "iMac11,1", "MacBookPro8,1", "MacBookPro9,1",
             "iMac14,1", "Xserve3,1"} |->
        CASE m = "MacPro3,1"     -> [cpu |-> penryn,       bt |-> BRCM2046]
          [] m = "iMac11,1"      -> [cpu |-> nehalem,      bt |-> BRCM2070]
          [] m = "MacBookPro8,1" -> [cpu |-> sandy_bridge, bt |-> BRCM20702_v1]
          [] m = "MacBookPro9,1" -> [cpu |-> ivy_bridge,   bt |-> BRCM20702_v1]
          [] m = "iMac14,1"      -> [cpu |-> haswell,      bt |-> BRCM20702_v2]
          [] m = "Xserve3,1"     -> [cpu |-> nehalem] ]

\* Model identifiers handed to the constructor; the last is not in the table.
Models == DOMAIN smbios_dictionary \cup {"Unknown1,1"}

HasBluetoothModel(m) == "bt" \in DOMAIN smbios_dictionary[m]

----------------------------------------------------------------------------
(* Patch actions: the mutations a pass performs on the document *)

NvramGuid == "7C436110-AB2A-4BBB-A880-FE41995C9F82"

BlueToolFixup == "BlueToolFixup.kext"
BluetoothSpoof == "Bluetooth-Spoof.kext"
AllowAnyAddr == "-btlfxallowanyaddr"
ControllerInfo == "bluetoothInternalControllerInfo"
DongleFailed == "bluetoothExternalDongleFailed"

EnablePatch(name) == [type |-> "EnablePatch", name |-> name]
SetBootArgument(token) == [type |-> "SetBootArgument", token |-> token]
SetFirmwareVariable(key, bytes) ==
    [type |-> "SetFirmwareVariable", guid |-> NvramGuid, key |-> key, bytes |-> bytes]
DeleteFirmwareVariable(key) ==
    [type |-> "DeleteFirmwareVariable", guid |-> NvramGuid, key |-> key]
SetQuirkFlag(key, value) == [type |-> "SetQuirkFlag", key |-> key, value |-> value]

----------------------------------------------------------------------------
(* binascii.unhexlify: two hexadecimal digits per byte *)

\* Variant: one more pair of digits in the literal.
ControllerInfoHex_Longer ==
    <<0,0,0,0,0,0,0,0,0,0,0,0,0,0,0,0,0,0,0,0,0,0,0,0,0,0,0,0,0,0>>

ControllerInfoHex == <<0,0,0,0,0,0,0,0,0,0,0,0,0,0,0,0,0,0,0,0,0,0,0,0,0,0,0,0>>
DongleFailedHex == <<0,0>>

unhexlify(hex) ==
    [i \in 1..(Len(hex) \div 2) |-> 16 * hex[2 * i - 1] + hex[2 * i]]

----------------------------------------------------------------------------
(* The configuration document *)

\* The sections of the document this class touches, as the sample document
\* has them before any Bluetooth patch is applied.
InitConfig ==
    [bootArgs    |-> <<"keepsyms=1">>,
     nvramAdd    |-> <<>>,
     nvramDelete |-> <<>>,
     quirk       |-> FALSE,
     kexts       |-> {}]

\* A pass in progress: the document, the mutations so far, the error flag.
Run(cfg) == [config |-> cfg, result |-> <<>>, raised |-> FALSE]

\* support.BuildSupport(...).enable_kext(name, version, path)
enable_kext(st, name) ==
    [st EXCEPT !.config.kexts = @ \cup {name},
               !.result = Append(@, EnablePatch(name))]

\* Variant: the token is appended only when the string lacks it.
append_boot_arg_Once(st, token) ==
    IF \E i \in DOMAIN st.config.bootArgs : st.config.bootArgs[i] = token
       THEN st
       ELSE [st EXCEPT !.config.bootArgs = Append(@, token),
                       !.result = Append(@, SetBootArgument(token))]

\* config["NVRAM"]["Add"][GUID]["boot-args"] += " " + token
append_boot_arg(st, token) ==
    [st EXCEPT !.config.bootArgs = Append(@, token),
               !.result = Append(@, SetBootArgument(token))]

\* config["NVRAM"]["Add"][GUID][key] = bytes
nvram_add(st, key, bytes) ==
    [st EXCEPT !.config.nvramAdd = (key :> bytes) @@ @,
               !.result = Append(@, SetFirmwareVariable(key, bytes))]

\* config["NVRAM"]["Delete"][GUID] += [key]
nvram_delete(st, key) ==
    [st EXCEPT !.config.nvramDelete = Append(@, key),
               !.result = Append(@, DeleteFirmwareVariable(key))]

\* config["Kernel"]["Quirks"]["ExtendBTFeatureFlags"] = True
set_quirk(st) ==
    [st EXCEPT !.config.quirk = TRUE,
               !.result = Append(@, SetQuirkFlag("ExtendBTFeatureFlags", TRUE))]

\* An exception leaves the handler where it is raised.
Raise(st) == [st EXCEPT !.raised = TRUE]

----------------------------------------------------------------------------
(* BuildBluetooth *)

\* Variant: each key is marked for deletion right after it is set.
bluetooth_firmware_incompatibility_workaround_Interleaved(st) ==
    LET s1 == nvram_add(st, ControllerInfo, unhexlify(ControllerInfoHex))
        s2 == nvram_delete(s1, ControllerInfo)
        s3 == nvram_add(s2, DongleFailed, unhexlify(DongleFailedHex))
    IN  nvram_delete(s3, DongleFailed)

bluetooth_firmware_incompatibility_workaround(st) ==
    LET s1 == nvram_add(st, ControllerInfo, unhexlify(ControllerInfoHex))
        s2 == nvram_add(s1, DongleFailed, unhexlify(DongleFailedHex))
        s3 == nvram_delete(s2, ControllerInfo)
    IN  nvram_delete(s3, DongleFailed)

\* Variant: the BRCM2046 Hub is left out of the list.
IsLegacyHub_Without2046(c) == c = "BRCM2070 Hub"

\* bluetooth_chipset in ["BRCM2070 Hub", "BRCM2046 Hub"]
IsLegacyHub(c) == c \in {"BRCM2070 Hub", "BRCM2046 Hub"}

\* bluetooth_chipset in ["3rd Party Bluetooth 4.0 Hub", "Generic"]
IsThirdPartyOrGeneric(c) == c \in {"3rd Party Bluetooth 4.0 Hub", "Generic"}

on_model_legacy(st) ==
    LET s1 == enable_kext(st, BlueToolFixup)
        s2 == enable_kext(s1, BluetoothSpoof)
        s3 == append_boot_arg(s2, AllowAnyAddr)
    IN  bluetooth_firmware_incompatibility_workaround(s3)

\* Variant: the CPU-generation check is an elif of the WiFi check.
on_model_transitional_Exclusive(st, w, m) ==
    IF w # None /\ w = AirPortBrcm4360
       THEN enable_kext(st, BlueToolFixup)
       ELSE IF m \in DOMAIN smbios_dictionary
               /\ smbios_dictionary[m].cpu < ivy_bridge
               THEN bluetooth_firmware_incompatibility_workaround(
                        enable_kext(st, BlueToolFixup))
               ELSE st

on_model_transitional(st, w, m) ==
    LET s1 == IF w # None /\ w = AirPortBrcm4360
                 THEN enable_kext(st, BlueToolFixup)
                 ELSE st
    IN  IF m \in DOMAIN smbios_dictionary
           /\ smbios_dictionary[m].cpu < ivy_bridge
           THEN bluetooth_firmware_incompatibility_workaround(
                    enable_kext(s1, BlueToolFixup))
           ELSE s1

\* Variant: the branch also appends the boot argument of the legacy hubs.
on_model_third_party_WithBootArg(st) ==
    set_quirk(append_boot_arg(enable_kext(st, BlueToolFixup), AllowAnyAddr))

on_model_third_party(st) == set_quirk(enable_kext(st, BlueToolFixup))

on_model(st, c, w, m) ==
    IF IsLegacyHub(c) THEN on_model_legacy(st)
    ELSE IF c = "BRCM20702 Hub" THEN on_model_transitional(st, w, m)
    ELSE IF IsThirdPartyOrGeneric(c) THEN on_model_third_party(st)
    ELSE st

\* Variant: the inner comparison is strict.
prebuilt_tier_StrictLegacy(st, tier) ==
    IF tier <= BRCM20702_v1
       THEN LET s1 == enable_kext(st, BlueToolFixup)
            IN  IF tier < BRCM2070
                   THEN enable_kext(
                            bluetooth_firmware_incompatibility_workaround(
                                append_boot_arg(s1, AllowAnyAddr)),
                            BluetoothSpoof)
                   ELSE s1
       ELSE st

\* Variant: Bluetooth-Spoof is enabled one indentation level too far out.
prebuilt_tier_SpoofOuter(st, tier) ==
    IF tier <= BRCM20702_v1
       THEN LET s1 == enable_kext(st, BlueToolFixup)
                s2 == IF tier <= BRCM2070
                         THEN bluetooth_firmware_incompatibility_workaround(
                                  append_boot_arg(s1, AllowAnyAddr))
                         ELSE s1
            IN  enable_kext(s2, BluetoothSpoof)
       ELSE st

\* The body of _prebuilt_assumption once the tier has been read.
prebuilt_tier(st, tier) ==
    IF tier <= BRCM20702_v1
       THEN LET s1 == enable_kext(st, BlueToolFixup)
            IN  IF tier <= BRCM2070
                   THEN enable_kext(
                            bluetooth_firmware_incompatibility_workaround(
                                append_boot_arg(s1, AllowAnyAddr)),
                            BluetoothSpoof)
                   ELSE s1
       ELSE st

\* Variant: the "Bluetooth Model" membership test is missing, so reading
\* the key of an entry that lacks it raises KeyError.
prebuilt_assumption_NoTierGuard(st, m) ==
    IF m \notin DOMAIN smbios_dictionary THEN st
    ELSE IF ~HasBluetoothModel(m) THEN Raise(st)
    ELSE prebuilt_tier(st, smbios_dictionary[m].bt)

prebuilt_assumption(st, m) ==
    IF m \notin DOMAIN smbios_dictionary THEN st
    ELSE IF ~HasBluetoothModel(m) THEN st
    ELSE prebuilt_tier(st, smbios_dictionary[m].bt)

\* Variant: the custom_model flag is not consulted.
UseLive_IgnoringCustom(cm, c) == c # None

\* not self.constants.custom_model and self.computer.bluetooth_chipset
UseLive(cm, c) == ~cm /\ c # None

----------------------------------------------------------------------------
(* Behaviour *)

Init ==
    /\ pc = "idle"
    /\ passes = 0
    /\ custom_model = FALSE
    /\ chipset = None
    /\ wifi = None
    /\ model = "Unknown1,1"
    /\ config = InitConfig
    /\ config0 = InitConfig
    /\ result = <<>>
    /\ prevResult = <<>>
    /\ same = FALSE
    /\ ran = <<>>
    /\ raised = FALSE

\* BuildBluetooth(model, global_constants, config) up to the call of _build.
Construct ==
    /\ pc \in {"idle", "done"}
    /\ passes < MaxPasses
    /\ \E cm \in BOOLEAN, c \in Chipsets, w \in WifiCards, m \in Models :
          /\ custom_model' = cm
          /\ chipset' = c
          /\ wifi' = w
          /\ model' = m
          /\ same' = (passes > 0 /\ <<cm, c, w, m>> = inputs)
    /\ passes' = passes + 1
    /\ config0' = config
    /\ prevResult' = result
    /\ result' = <<>>
    /\ ran' = <<>>
    /\ raised' = FALSE
    /\ pc' = "build"
    /\ UNCHANGED config

Build ==
    /\ pc = "build"
    /\ pc' = IF UseLive(custom_model, chipset) THEN "on_model" ELSE "prebuilt"
    /\ UNCHANGED <<passes, custom_model, chipset, wifi, model, config, config0,
                   result, prevResult, same, ran, raised>>

Finish(st, name) ==
    /\ config' = st.config
    /\ result' = st.result
    /\ raised' = st.raised
    /\ ran' = Append(ran, name)
    /\ pc' = "done"
    /\ UNCHANGED <<passes, custom_model, chipset, wifi, model, config0,
                   prevResult, same>>

OnModel ==
    /\ pc = "on_model"
    /\ Finish(on_model(Run(config), chipset, wifi, model), "on_model")

PrebuiltAssumption ==
    /\ pc = "prebuilt"
    /\ Finish(prebuilt_assumption(Run(config), model), "prebuilt_assumption")

Next == Construct \/ Build \/ OnModel \/ PrebuiltAssumption

Spec == Init /\ [][Next]_vars

----------------------------------------------------------------------------
(* Vocabulary of the properties *)

\* Type and subject of a patch action, without its payload.
Kind(a) ==
    CASE a.type = "EnablePatch"            -> <<a.type, a.name>>
      [] a.type = "SetBootArgument"        -> <<a.type, a.token>>
      [] a.type = "SetFirmwareVariable"    -> <<a.type, a.key>>
      [] a.type = "DeleteFirmwareVariable" -> <<a.type, a.key>>
      [] a.type = "SetQuirkFlag"           -> <<a.type, a.key>>

Kinds(r) == [i \in DOMAIN r |-> Kind(r[i])]

Positions(r, k) == {i \in DOMAIN r : Kind(r[i]) = k}

KPrimary == <<"EnablePatch", "BlueToolFixup.kext">>
KSpoof == <<"EnablePatch", "Bluetooth-Spoof.kext">>
KAnyAddr == <<"SetBootArgument", "-btlfxallowanyaddr">>
KQuirk == <<"SetQuirkFlag", "ExtendBTFeatureFlags">>

\* The firmware-incompatibility workaround as a sequence of kinds.
KWorkaround ==
    << <<"SetFirmwareVariable", "bluetoothInternalControllerInfo">>,
       <<"SetFirmwareVariable", "bluetoothExternalDongleFailed">>,
       <<"DeleteFirmwareVariable", "bluetoothInternalControllerInfo">>,
       <<"DeleteFirmwareVariable", "bluetoothExternalDongleFailed">> >>

IsFirmwareAction(a) == a.type \in {"SetFirmwareVariable", "DeleteFirmwareVariable"}

FirmwarePositions(r) == {i \in DOMAIN r : IsFirmwareAction(r[i])}

Zeros(n) == [i \in 1..n |-> 0]

Live == pc = "done" /\ ran = <<"on_model">>
Fallback == pc = "done" /\ ran = <<"prebuilt_assumption">>

HasProfile == model \in DOMAIN smbios_dictionary
HasTier == HasProfile /\ "bt" \in DOMAIN smbios_dictionary[model]
Tier == smbios_dictionary[model].bt

\* The two conditions of the BRCM20702 Hub branch.
CondW == wifi # None /\ wifi = "AirPortBrcm4360"
CondC == HasProfile /\ smbios_dictionary[model].cpu < ivy_bridge

KLive7 == <<KPrimary, KSpoof, KAnyAddr>> \o KWorkaround
KFallback7 == <<KPrimary, KAnyAddr>> \o KWorkaround \o <<KSpoof>>

\* What the fallback emits for the current model, by tier.
KFallbackExpected ==
    IF ~HasTier THEN <<>>
    ELSE IF Tier <= BRCM2070 THEN KFallback7
    ELSE IF Tier <= BRCM20702_v1 THEN <<KPrimary>>
    ELSE <<>>

----------------------------------------------------------------------------
(* C1: exactly one handler runs per pass: _on_model iff custom_model is    *)
(* false and a Bluetooth chipset was detected, _prebuilt_assumption in     *)
(* every other case.  A live pass on an unrecognised chipset performs no   *)
(* mutation (the fallback is not consulted), and with custom_model set the *)
(* mutations depend on the model alone.                                    *)
C1_Dispatch ==
    /\ pc \in {"idle", "build", "on_model", "prebuilt"} => ran = <<>>
    /\ pc = "on_model" => ~custom_model /\ chipset # None
    /\ pc = "prebuilt" => custom_model \/ chipset = None
    /\ pc = "done" =>
         /\ Len(ran) = 1
         /\ ran[1] = "on_model" <=> (~custom_model /\ chipset # None)
         /\ ran[1] = "prebuilt_assumption" <=> (custom_model \/ chipset = None)
         /\ (~custom_model /\ chipset = "CSR Hub") => result = <<>>
         /\ custom_model => Kinds(result) = KFallbackExpected

C1_Witness ==
    /\ pc = "done"
    /\ ~custom_model
    /\ chipset = "CSR Hub"
    /\ model = "iMac11,1"
    /\ ran = <<"on_model">>
    /\ result = <<>>

(* C2: a live pass on "BRCM2070 Hub" or "BRCM2046 Hub" performs the same   *)
(* seven mutations in the same order, whatever the WiFi card and model.    *)
C2_LegacyFamily ==
    (Live /\ chipset \in {"BRCM2070 Hub", "BRCM2046 Hub"})
        => Kinds(result) = KLive7

C2_Witness ==
    /\ Live
    /\ chipset = "BRCM2046 Hub"
    /\ wifi = "AirPortBrcm4360"
    /\ model = "Unknown1,1"
    /\ Kinds(result) = KLive7

(* C3: on "BRCM20702 Hub" the WiFi condition W and the CPU-generation      *)
(* condition C are additive: the result is (BlueToolFixup if W) followed   *)
(* by (BlueToolFixup and the workaround if C).                             *)
C3_Additive ==
    (Live /\ chipset = "BRCM20702 Hub")
        => Kinds(result) =
              (IF CondW THEN <<KPrimary>> ELSE <<>>)
              \o (IF CondC THEN <<KPrimary>> \o KWorkaround ELSE <<>>)

C3_Witness ==
    /\ Live
    /\ chipset = "BRCM20702 Hub"
    /\ CondW
    /\ CondC
    /\ Len(result) = 6
    /\ Positions(result, KPrimary) = {1, 2}

\* Ordinals of bluetooth_data.bluetooth_data.
TierOrdinals == 0 .. 9

TriggersBase(t) ==
    \E i \in DOMAIN prebuilt_tier(Run(config), t).result :
        Kind(prebuilt_tier(Run(config), t).result[i]) = KPrimary

TriggersExtended(t) ==
    \E i \in DOMAIN prebuilt_tier(Run(config), t).result :
        IsFirmwareAction(prebuilt_tier(Run(config), t).result[i])

(* C4: for a model with a recorded tier t the fallback performs the seven  *)
(* legacy mutations when t <= BRCM2070, BlueToolFixup alone when           *)
(* BRCM2070 < t <= BRCM20702_v1, and nothing above; the base patch and the *)
(* extended workaround are therefore monotonic in the tier.                *)
C4_FallbackByTier ==
    /\ (Fallback /\ HasTier) =>
          Kinds(result) =
             CASE Tier <= BRCM2070 -> KFallback7
               [] Tier > BRCM2070 /\ Tier <= BRCM20702_v1 -> <<KPrimary>>
               [] Tier > BRCM20702_v1 -> <<>>
    /\ \A a, b \in TierOrdinals :
          a < b => /\ TriggersBase(b) => TriggersBase(a)
                   /\ TriggersExtended(b) => TriggersExtended(a)

C4_Witness ==
    /\ Fallback
    /\ model = "iMac11,1"
    /\ Tier = BRCM2070
    /\ Kinds(result) = KFallback7

(* C5: in every result the workaround occurs at most once, as a contiguous *)
(* block of four actions (set, set, delete, delete), and only after an     *)
(* earlier BlueToolFixup enablement in the same result.                    *)
C5_WorkaroundBlock ==
    \/ FirmwarePositions(result) = {}
    \/ \E i \in DOMAIN result :
          /\ FirmwarePositions(result) = i .. (i + 3)
          /\ i + 3 <= Len(result)
          /\ SubSeq(Kinds(result), i, i + 3) = KWorkaround
          /\ \E j \in 1 .. (i - 1) : Kind(result[j]) = KPrimary

C5_Witness ==
    /\ Live
    /\ chipset = "BRCM20702 Hub"
    /\ CondW
    /\ FirmwarePositions(result) = 3 .. 6

\* The workaround's payload and its effect on the document, for a
\* bluetoothInternalControllerInfo value of n zero bytes.
PayloadIs(n) ==
    \A i \in DOMAIN result :
        Kind(result[i]) = KWorkaround[1] =>
            /\ i + 3 <= Len(result)
            /\ SubSeq(result, i, i + 3) =
                 << [type |-> "SetFirmwareVariable",
                     guid |-> "7C436110-AB2A-4BBB-A880-FE41995C9F82",
                     key |-> "bluetoothInternalControllerInfo",
                     bytes |-> Zeros(n)],
                    [type |-> "SetFirmwareVariable",
                     guid |-> "7C436110-AB2A-4BBB-A880-FE41995C9F82",
                     key |-> "bluetoothExternalDongleFailed",
                     bytes |-> Zeros(1)],
                    [type |-> "DeleteFirmwareVariable",
                     guid |-> "7C436110-AB2A-4BBB-A880-FE41995C9F82",
                     key |-> "bluetoothInternalControllerInfo"],
                    [type |-> "DeleteFirmwareVariable",
                     guid |-> "7C436110-AB2A-4BBB-A880-FE41995C9F82",
                     key |-> "bluetoothExternalDongleFailed"] >>
            /\ pc = "done" =>
                 /\ config.nvramAdd["bluetoothInternalControllerInfo"] = Zeros(n)
                 /\ config.nvramAdd["bluetoothExternalDongleFailed"] = Zeros(1)
                 /\ config.nvramDelete = config0.nvramDelete \o
                      <<"bluetoothInternalControllerInfo",
                        "bluetoothExternalDongleFailed">>

(* C6 (as amended): the workaround sets bluetoothInternalControllerInfo to *)
(* 14 zero bytes and bluetoothExternalDongleFailed to 1 zero byte, then    *)
(* marks those two keys, in that order, for deletion, all under the one    *)
(* NVRAM GUID 7C436110-AB2A-4BBB-A880-FE41995C9F82.                        *)
C6_Payload == PayloadIs(14)

C6_Witness ==
    /\ pc = "done"
    /\ FirmwarePositions(result) # {}
    /\ Len(config.nvramAdd["bluetoothInternalControllerInfo"]) = 14

\* C6 as stated: bluetoothInternalControllerInfo is set to 15 zero bytes.
C6_Original == PayloadIs(15)

(* C7: a live pass on "3rd Party Bluetooth 4.0 Hub" or "Generic" enables   *)
(* BlueToolFixup and sets ExtendBTFeatureFlags, and nothing else: boot     *)
(* arguments, NVRAM Add and NVRAM Delete are unchanged and Bluetooth-Spoof *)
(* is not enabled.  No other pass sets ExtendBTFeatureFlags.               *)
C7_ThirdPartyFrame ==
    /\ (Live /\ chipset \in {"3rd Party Bluetooth 4.0 Hub", "Generic"}) =>
          /\ result = << [type |-> "EnablePatch", name |-> "BlueToolFixup.kext"],
                         [type |-> "SetQuirkFlag", key |-> "ExtendBTFeatureFlags",
                          value |-> TRUE] >>
          /\ config.quirk = TRUE
          /\ config.bootArgs = config0.bootArgs
          /\ config.nvramAdd = config0.nvramAdd
          /\ config.nvramDelete = config0.nvramDelete
          /\ config.kexts = config0.kexts \cup {"BlueToolFixup.kext"}
    /\ (pc = "done"
        /\ ~(Live /\ chipset \in {"3rd Party Bluetooth 4.0 Hub", "Generic"})) =>
          /\ Positions(result, KQuirk) = {}
          /\ config.quirk = config0.quirk

C7_Witness ==
    /\ Live
    /\ chipset = "Generic"
    /\ passes = 2
    /\ config0.nvramDelete # <<>>
    /\ ~config0.quirk
    /\ config.quirk

(* C8: lookup misses are not errors.  A live pass on an unrecognised       *)
(* chipset, and a fallback pass on a model that is not in the table or has *)
(* no Bluetooth Model, finish without an exception and leave the document  *)
(* unchanged; on "BRCM20702 Hub" an absent WiFi card or an unlisted model  *)
(* only disables the condition that needed it.                             *)
C8_LookupMiss ==
    /\ ~raised
    /\ (Live /\ chipset = "CSR Hub") => (result = <<>> /\ config = config0)
    /\ (Fallback /\ ~HasProfile) => (result = <<>> /\ config = config0)
    /\ (Fallback /\ HasProfile /\ ~HasTier) => (result = <<>> /\ config = config0)
    /\ (Live /\ chipset = "BRCM20702 Hub" /\ wifi = None /\ CondC) =>
          Kinds(result) = <<KPrimary>> \o KWorkaround
    /\ (Live /\ chipset = "BRCM20702 Hub" /\ ~HasProfile /\ CondW) =>
          Kinds(result) = <<KPrimary>>

C8_Witness ==
    /\ Fallback
    /\ model = "Xserve3,1"
    /\ passes = 2
    /\ config0 # InitConfig
    /\ config = config0
    /\ result = <<>>

BootTokens(r) ==
    LET IsBoot(a) == a.type = "SetBootArgument"
        b == SelectSeq(r, IsBoot)
    IN  [i \in DOMAIN b |-> b[i].token]

DeletedKeys(r) ==
    LET IsDelete(a) == a.type = "DeleteFirmwareVariable"
        d == SelectSeq(r, IsDelete)
    IN  [i \in DOMAIN d |-> d[i].key]

C10_AnyAddrScope ==
    /\ Cardinality(Positions(result, KAnyAddr)) <= 1
    /\ Cardinality(Positions(result, KSpoof)) <= 1
    /\ Positions(result, KAnyAddr) # {} <=> Positions(result, KSpoof) # {}
    /\ Positions(result, KAnyAddr) # {} =>
          /\ Cardinality(FirmwarePositions(result)) = 4
          /\ \/ Live /\ chipset \in {"BRCM2070 Hub", "BRCM2046 Hub"}
             \/ Fallback /\ HasTier /\ Tier <= BRCM2070
    /\ (Live /\ chipset \in {"BRCM2070 Hub", "BRCM2046 Hub"}) =>
          /\ Kind(result[2]) = KSpoof
          /\ <<Kind(result[1])>> \o SubSeq(Kinds(result), 3, 7)
                = <<KPrimary, KAnyAddr>> \o KWorkaround
    /\ (Fallback /\ HasTier /\ Tier <= BRCM2070) =>
          /\ Kind(result[7]) = KSpoof
          /\ SubSeq(Kinds(result), 1, 6) = <<KPrimary, KAnyAddr>> \o KWorkaround

C10_Witness ==
    /\ Fallback
    /\ model = "MacPro3,1"
    /\ Len(result) = 7
    /\ Kind(result[7]) = KSpoof
    /\ Positions(result, KAnyAddr) = {2}

====
